---- MODULE Spec2Model ----
(***************************************************************************)
(* The Status-MQTT-Homebridge sketch of dscKeybusInterface as a state      *)
(* machine: the poll cycle loop() (Connection Supervisor mqttHandle, the   *)
(* Keybus step dsc.handlePanel, the Status Translator), the inbound        *)
(* message handler mqttCallback (Command Gate) and the time and broker     *)
(* environment.  The Keybus library (dsc) and the MQTT client (mqtt) are   *)
(* collaborators: their effects on the sketch are modelled by              *)
(* nondeterministic environment steps.                                     *)
(***************************************************************************)
EXTENDS Integers, Sequences, FiniteSets, TLC

(***************************************************************************)
(* Bounds of the model.                                                    *)
(***************************************************************************)
\* Keybus status changes the bus collaborator makes in one run of the model.
MaxBusChanges == 2
\* Advances of the millisecond clock in one run of the model.
MaxTicks == 4

\* The partitions and zones the bus collaborator changes: the first and the
\* last partition; zones 2, 9 and 64 as (zoneGroup, zoneBit).
UsedPartitions == {0, 7}
UsedZones == {<<0, 1>>, <<1, 0>>, <<7, 7>>}
\* millis() when setup() makes its connection attempt, and the steps by
\* which the clock advances between two looks at it.
StartTimes == {3000, (2 ^ 16) - 6000}
QuietStart == {3000}
Delays == {1, 2500}
\* The step of the clock that runs without end; it divides MillisModulus.
Periods == {2 ^ 13}

(***************************************************************************)
(* Program constants.                                                      *)
(***************************************************************************)
dscPartitions == 8
zoneGroups == 8
zoneBits == 8
mqttRetryInterval == 5000
\* millis() and mqttPreviousTime are unsigned long and wrap at 2^32; the model
\* keeps an unsigned clock that wraps, 16 bits wide, the widest whose sums
\* with the values above stay small.
MillisModulus == 2 ^ 16

accessCode == ""
mqttPartitionTopic == "dsc/Get/Partition"
mqttZoneTopic == "dsc/Get/Zone"
mqttFireTopic == "dsc/Get/Fire"
mqttSubscribeTopic == "dsc/Set"

NoMessage == "none"
NoKey == "nokey"
Payloads == {"S", "A", "N", "D", "X"}

VARIABLES
  \* dsc.*: the panel state snapshot kept by the Keybus library
  statusChanged, bufferOverflow, accessCodePrompt, writeReady,
  partitionArmed, exitDelay,
  partitionsArmed, partitionsArmedAway, partitionsArmedStay,
  partitionsNoEntryDelay, partitionsArmedChanged,
  partitionsAlarm, partitionsAlarmChanged,
  partitionsFire, partitionsFireChanged,
  openZonesStatusChanged, openZones, openZonesChanged,
  \* mqtt.*: the broker client
  connected, subscribed,
  \* the sketch's own state and the clock
  mqttPreviousTime, now,
  \* control: where loop() is, and what mqttCallback is waiting to write
  pc, pendingKey,
  \* what dsc.handlePanel() returned to loop() at line 172
  handlePanelResult,
  \* observations
  published, writes, codeSent, callback, poll, lastAttempt, runLog,
  busChanges, ticks

dscVars == <<statusChanged, bufferOverflow, accessCodePrompt, writeReady,
             partitionArmed, exitDelay>>
partitionVars == <<partitionsArmed, partitionsArmedAway, partitionsArmedStay,
                   partitionsNoEntryDelay, partitionsArmedChanged,
                   partitionsAlarm, partitionsAlarmChanged,
                   partitionsFire, partitionsFireChanged>>
zoneVars == <<openZonesStatusChanged, openZones, openZonesChanged>>
mqttVars == <<connected, subscribed, mqttPreviousTime>>
obsVars == <<published, writes, codeSent, callback, poll, lastAttempt, runLog>>
vars == <<dscVars, partitionVars, zoneVars, mqttVars, now, pc, pendingKey,
          handlePanelResult, obsVars, busChanges, ticks>>

(***************************************************************************)
(* Arduino helpers.                                                        *)
(***************************************************************************)
bitRead(value, bit) == (value \div (2 ^ bit)) % 2

bitWrite(value, bit, bitvalue) ==
  IF bitvalue = 1 THEN value + (1 - bitRead(value, bit)) * (2 ^ bit)
                  ELSE value - bitRead(value, bit) * (2 ^ bit)

Digit(d) ==
  CASE d = 0 -> "0" [] d = 1 -> "1" [] d = 2 -> "2" [] d = 3 -> "3"
    [] d = 4 -> "4" [] d = 5 -> "5" [] d = 6 -> "6" [] d = 7 -> "7"
    [] d = 8 -> "8" [] d = 9 -> "9"

RECURSIVE itoa(_)
itoa(n) == IF n < 10 THEN Digit(n) ELSE itoa(n \div 10) \o Digit(n % 10)

\* strcpy(topic, base); itoa(number, suffix, 10); strcat(topic, suffix): the
\* text handed to mqtt.publish.  (The size of the buffer it is built in is a
\* separate matter: the esp8266 build rounds the variable-length array up to
\* the stack alignment of 16 bytes, which holds the configured topics.)
PublishTopic(base, number) == base \o itoa(number)

\* The topic buffers: char partitionPublishTopic[strlen(mqttPartitionTopic) + 1]
\* (lines 193, 213), char firePublishTopic[strlen(mqttFireTopic) + 1] (line
\* 227), char zonePublishTopic[strlen(mqttZoneTopic) + 2] (line 252).
PartitionTopicBuffer == Len(mqttPartitionTopic) + 1
FireTopicBuffer == Len(mqttFireTopic) + 1
ZoneTopicBuffer == Len(mqttZoneTopic) + 2

\* The bytes strcpy(buffer, base) and strcat(buffer, itoa(number)) write: the
\* characters of the topic and the terminator.
BytesWritten(base, number) == Len(PublishTopic(base, number)) + 1

\* mqtt.publish(topic, payload, retained): the call as the broker client sees
\* it; the client reports failure when it is not connected, and the sketch
\* ignores the result.
Message(topic, payload, retained) ==
  [topic |-> topic, payload |-> payload, retained |-> retained, ok |-> connected]

(***************************************************************************)
(* Status Translator: loop(), lines 186-265.                               *)
(***************************************************************************)
ArmedStatePayloadStayFirst(partitionIndex) ==
  IF partitionsArmed[partitionIndex]
  THEN IF partitionsArmedStay[partitionIndex] /\ partitionsNoEntryDelay[partitionIndex]
       THEN <<"NA">>
       ELSE IF partitionsArmedStay[partitionIndex]
       THEN <<"SA">>
       ELSE IF partitionsArmedAway[partitionIndex] /\ partitionsNoEntryDelay[partitionIndex]
       THEN <<"NA">>
       ELSE IF partitionsArmedAway[partitionIndex]
       THEN <<"AA">>
       ELSE <<>>
  ELSE <<"D">>

ArmedStatePayloadNoElse(partitionIndex) ==
  IF partitionsArmed[partitionIndex]
  THEN (IF partitionsArmedAway[partitionIndex] /\ partitionsNoEntryDelay[partitionIndex]
        THEN <<"NA">> ELSE <<>>)
       \o (IF partitionsArmedAway[partitionIndex] THEN <<"AA">> ELSE <<>>)
       \o (IF partitionsArmedStay[partitionIndex] /\ partitionsNoEntryDelay[partitionIndex]
           THEN <<"NA">> ELSE <<>>)
       \o (IF partitionsArmedStay[partitionIndex] THEN <<"SA">> ELSE <<>>)
  ELSE <<"D">>

ArmedStatePayloadElseDisarmed(partitionIndex) ==
  IF partitionsArmed[partitionIndex]
       /\ partitionsArmedAway[partitionIndex] /\ partitionsNoEntryDelay[partitionIndex]
  THEN <<"NA">>
  ELSE IF partitionsArmed[partitionIndex] /\ partitionsArmedAway[partitionIndex]
  THEN <<"AA">>
  ELSE IF partitionsArmed[partitionIndex]
            /\ partitionsArmedStay[partitionIndex] /\ partitionsNoEntryDelay[partitionIndex]
  THEN <<"NA">>
  ELSE IF partitionsArmed[partitionIndex] /\ partitionsArmedStay[partitionIndex]
  THEN <<"SA">>
  ELSE <<"D">>

\* The armed-state payloads published for one partition (none or one).
ArmedStatePayload(partitionIndex) ==
  IF partitionsArmed[partitionIndex]
  THEN IF partitionsArmedAway[partitionIndex] /\ partitionsNoEntryDelay[partitionIndex]
       THEN <<"NA">>
       ELSE IF partitionsArmedAway[partitionIndex]
       THEN <<"AA">>
       ELSE IF partitionsArmedStay[partitionIndex] /\ partitionsNoEntryDelay[partitionIndex]
       THEN <<"NA">>
       ELSE IF partitionsArmedStay[partitionIndex]
       THEN <<"SA">>
       ELSE <<>>
  ELSE <<"D">>

ArmedPublishes(partitionIndex) ==
  IF partitionsArmedChanged[partitionIndex]
  THEN [i \in 1..Len(ArmedStatePayload(partitionIndex)) |->
          Message(PublishTopic(mqttPartitionTopic, partitionIndex + 1),
                  ArmedStatePayload(partitionIndex)[i], TRUE)]
  ELSE <<>>

AlarmPublishesOnChange(partitionIndex) ==
  IF partitionsAlarmChanged[partitionIndex]
  THEN <<Message(PublishTopic(mqttPartitionTopic, partitionIndex + 1), "T", TRUE)>>
  ELSE <<>>

AlarmPublishes(partitionIndex) ==
  IF partitionsAlarmChanged[partitionIndex] /\ partitionsAlarm[partitionIndex]
  THEN <<Message(PublishTopic(mqttPartitionTopic, partitionIndex + 1), "T", TRUE)>>
  ELSE <<>>

FirePublishesRetained(partitionIndex) ==
  IF partitionsFireChanged[partitionIndex]
  THEN <<Message(PublishTopic(mqttFireTopic, partitionIndex + 1),
                 IF partitionsFire[partitionIndex] THEN "1" ELSE "0", TRUE)>>
  ELSE <<>>

\* mqtt.publish(topic, payload) is not retained.
FirePublishes(partitionIndex) ==
  IF partitionsFireChanged[partitionIndex]
  THEN <<Message(PublishTopic(mqttFireTopic, partitionIndex + 1),
                 IF partitionsFire[partitionIndex] THEN "1" ELSE "0", FALSE)>>
  ELSE <<>>

RECURSIVE PartitionLoop(_)
PartitionLoop(partitionIndex) ==
  IF partitionIndex < dscPartitions
  THEN ArmedPublishes(partitionIndex) \o AlarmPublishes(partitionIndex)
         \o FirePublishes(partitionIndex) \o PartitionLoop(partitionIndex + 1)
  ELSE <<>>

ZonePublishesBitTimesEight(zoneGroup, zoneBit) ==
  IF bitRead(openZonesChanged[zoneGroup], zoneBit) = 1
  THEN <<Message(PublishTopic(mqttZoneTopic, zoneGroup + 1 + (zoneBit * 8)),
                 IF bitRead(openZones[zoneGroup], zoneBit) = 1 THEN "1" ELSE "0",
                 TRUE)>>
  ELSE <<>>

ZonePublishes(zoneGroup, zoneBit) ==
  IF bitRead(openZonesChanged[zoneGroup], zoneBit) = 1
  THEN <<Message(PublishTopic(mqttZoneTopic, zoneBit + 1 + (zoneGroup * 8)),
                 IF bitRead(openZones[zoneGroup], zoneBit) = 1 THEN "1" ELSE "0",
                 TRUE)>>
  ELSE <<>>

RECURSIVE ZoneBitLoop(_, _)
ZoneBitLoop(zoneGroup, zoneBit) ==
  IF zoneBit < zoneBits
  THEN ZonePublishes(zoneGroup, zoneBit) \o ZoneBitLoop(zoneGroup, zoneBit + 1)
  ELSE <<>>

RECURSIVE ZoneGroupLoop(_)
ZoneGroupLoop(zoneGroup) ==
  IF zoneGroup < zoneGroups
  THEN ZoneBitLoop(zoneGroup, 0) \o ZoneGroupLoop(zoneGroup + 1)
  ELSE <<>>

\* Every publish call of one run of the translator, in the order of the calls.
StatusPublishesZonesFirst ==
  (IF openZonesStatusChanged THEN ZoneGroupLoop(0) ELSE <<>>) \o PartitionLoop(0)

StatusPublishes ==
  PartitionLoop(0) \o (IF openZonesStatusChanged THEN ZoneGroupLoop(0) ELSE <<>>)

ArmedChangedKept(partitionIndex) == partitionsArmedChanged[partitionIndex]

\* The change flags as one run of the translator leaves them.
ArmedChangedAfter(partitionIndex) ==
  IF partitionsArmedChanged[partitionIndex] THEN FALSE
  ELSE partitionsArmedChanged[partitionIndex]

AlarmChangedAfter(partitionIndex) ==
  IF partitionsAlarmChanged[partitionIndex] THEN FALSE
  ELSE partitionsAlarmChanged[partitionIndex]

FireChangedUntilSent(partitionIndex) ==
  IF partitionsFireChanged[partitionIndex] THEN ~connected
  ELSE partitionsFireChanged[partitionIndex]

FireChangedAfter(partitionIndex) ==
  IF partitionsFireChanged[partitionIndex] THEN FALSE
  ELSE partitionsFireChanged[partitionIndex]

RECURSIVE ResetChangedBits(_, _)
ResetChangedBits(value, zoneBit) ==
  IF zoneBit < zoneBits
  THEN ResetChangedBits(IF bitRead(value, zoneBit) = 1
                        THEN bitWrite(value, zoneBit, 0) ELSE value, zoneBit + 1)
  ELSE value

ZonesChangedAfter(zoneGroup) ==
  IF openZonesStatusChanged THEN ResetChangedBits(openZonesChanged[zoneGroup], 0)
  ELSE openZonesChanged[zoneGroup]

(***************************************************************************)
(* Command Gate: mqttCallback, lines 273-302.                              *)
(***************************************************************************)
GateKeyNoExitDelay(payload) ==
  IF payload = "S" /\ ~partitionArmed THEN "s"
  ELSE IF payload = "A" /\ ~partitionArmed THEN "w"
  ELSE IF payload = "N" /\ ~partitionArmed THEN "n"
  ELSE IF payload = "D" /\ partitionArmed THEN accessCode
  ELSE NoKey

GateKeyElseDisarm(payload) ==
  IF payload = "S" /\ ~partitionArmed /\ ~exitDelay THEN "s"
  ELSE IF payload = "A" /\ ~partitionArmed /\ ~exitDelay THEN "w"
  ELSE IF payload = "N" /\ ~partitionArmed /\ ~exitDelay THEN "n"
  ELSE IF partitionArmed \/ exitDelay THEN accessCode
  ELSE NoKey

\* What the handler decides to write for a payload: a keypad key, the access
\* code, or nothing.
GateKey(payload) ==
  IF payload = "S" /\ ~partitionArmed /\ ~exitDelay THEN "s"
  ELSE IF payload = "A" /\ ~partitionArmed /\ ~exitDelay THEN "w"
  ELSE IF payload = "N" /\ ~partitionArmed /\ ~exitDelay THEN "n"
  ELSE IF payload = "D" /\ (partitionArmed \/ exitDelay) THEN accessCode
  ELSE NoKey

\* One dsc.write as the panel sees it, with the state it is made in.
WriteRecord(key) ==
  [key |-> key, ready |-> writeReady, armed |-> partitionArmed,
   exitDelay |-> exitDelay]

NoCallback == [payload |-> NoMessage, armed |-> FALSE, exitDelay |-> FALSE,
               returned |-> FALSE]

(***************************************************************************)
(* Connection Supervisor: mqttHandle, lines 305-318.                       *)
(***************************************************************************)
\* unsigned long subtraction
Elapsed(current, previous) == (current - previous) % MillisModulus

ReconnectDueTenfold(mqttCurrentTime) ==
  Elapsed(mqttCurrentTime, mqttPreviousTime) > 10 * mqttRetryInterval

ReconnectDueAlways(mqttCurrentTime) == TRUE

ReconnectDue(mqttCurrentTime) ==
  Elapsed(mqttCurrentTime, mqttPreviousTime) > mqttRetryInterval

PreviousTimeAlwaysZero(mqttCurrentTime, reconnected) == 0

\* mqttPreviousTime = mqttCurrentTime; if (mqttConnect()) mqttPreviousTime = 0;
PreviousTimeAfterAttempt(mqttCurrentTime, reconnected) ==
  IF reconnected THEN 0 ELSE mqttCurrentTime

SubscribedAfterConnectNever(accepted) == FALSE

\* mqttConnect: mqtt.subscribe(mqttSubscribeTopic) follows a successful
\* mqtt.connect() and nothing follows a failed one.
SubscribedAfterConnect(accepted) == accepted

(***************************************************************************)
(* The state after setup(), lines 146-166.                                 *)
(***************************************************************************)
PartitionIndexes == 0..(dscPartitions - 1)
ZoneGroupIndexes == 0..(zoneGroups - 1)

InitAt(times) ==
  /\ statusChanged = FALSE /\ bufferOverflow = FALSE
  /\ accessCodePrompt = FALSE /\ writeReady = FALSE
  /\ partitionArmed = FALSE /\ exitDelay = FALSE
  /\ partitionsArmed = [i \in PartitionIndexes |-> FALSE]
  /\ partitionsArmedAway = [i \in PartitionIndexes |-> FALSE]
  /\ partitionsArmedStay = [i \in PartitionIndexes |-> FALSE]
  /\ partitionsNoEntryDelay = [i \in PartitionIndexes |-> FALSE]
  /\ partitionsArmedChanged = [i \in PartitionIndexes |-> FALSE]
  /\ partitionsAlarm = [i \in PartitionIndexes |-> FALSE]
  /\ partitionsAlarmChanged = [i \in PartitionIndexes |-> FALSE]
  /\ partitionsFire = [i \in PartitionIndexes |-> FALSE]
  /\ partitionsFireChanged = [i \in PartitionIndexes |-> FALSE]
  /\ openZonesStatusChanged = FALSE
  /\ openZones = [g \in ZoneGroupIndexes |-> 0]
  /\ openZonesChanged = [g \in ZoneGroupIndexes |-> 0]
  /\ now \in times
  \* if (mqttConnect()) mqttPreviousTime = millis(); else mqttPreviousTime = 0;
  /\ connected \in BOOLEAN
  /\ subscribed = connected
  /\ mqttPreviousTime = (IF connected THEN now ELSE 0)
  /\ pc = "mqttHandle"
  /\ pendingKey = NoKey
  /\ handlePanelResult = FALSE
  /\ published = <<>> /\ writes = <<>> /\ codeSent = FALSE
  /\ callback = NoCallback
  /\ lastAttempt = [time |-> now, ok |-> connected, reconnect |-> FALSE,
                    wrapped |-> FALSE]
  /\ poll = [disconnected |-> FALSE, elapsed |-> 0, attempts |-> 0,
             previous |-> lastAttempt]
  /\ runLog = <<>>
  /\ busChanges = 0 /\ ticks = 0

Init == InitAt(StartTimes)

(***************************************************************************)
(* Environment: the clock and the broker.                                  *)
(***************************************************************************)
Tick(delay) ==
  /\ ticks < MaxTicks
  /\ ticks' = ticks + 1
  /\ now' = (now + delay) % MillisModulus
  /\ lastAttempt' = [lastAttempt EXCEPT
                       !.wrapped = @ \/ now + delay >= MillisModulus]
  /\ UNCHANGED <<dscVars, partitionVars, zoneVars, mqttVars, pc, pendingKey,
                 published, writes, codeSent, callback, poll, runLog, busChanges,
                 handlePanelResult>>

\* The clock with no end to its running.  The sketch reads millis() in
\* mqttHandle only (line 307), so the time that passes between two reads
\* passes before the later one.
Advance(delay) ==
  /\ pc = "mqttHandle"
  /\ now' = (now + delay) % MillisModulus
  /\ lastAttempt' = [lastAttempt EXCEPT
                       !.wrapped = @ \/ now + delay >= MillisModulus]
  /\ UNCHANGED <<dscVars, partitionVars, zoneVars, mqttVars, pc, pendingKey,
                 published, writes, codeSent, callback, poll, runLog, busChanges,
                 ticks, handlePanelResult>>

\* The connection to the broker is lost.
BrokerDrop ==
  /\ connected
  /\ connected' = FALSE
  /\ subscribed' = FALSE
  /\ UNCHANGED <<dscVars, partitionVars, zoneVars, mqttPreviousTime, now, pc,
                 pendingKey, obsVars, busChanges, ticks,
                 handlePanelResult>>

(***************************************************************************)
(* The bus collaborator: what one dsc.handlePanel() may change.            *)
(***************************************************************************)
Change(kind, index, bit, value) ==
  [kind |-> kind, index |-> index, bit |-> bit, value |-> value]

ArmedModes == BOOLEAN \X BOOLEAN \X BOOLEAN \X BOOLEAN

PartitionChanges ==
  {Change("armed", p, 0, m) : p \in UsedPartitions, m \in ArmedModes}
    \cup {Change(k, p, 0, <<v>>) : k \in {"alarm", "fire"}, p \in UsedPartitions,
                                   v \in BOOLEAN}
ZoneChanges == {Change("zone", z[1], z[2], <<v>>) : z \in UsedZones, v \in BOOLEAN}
StatusChanges ==
  PartitionChanges \cup ZoneChanges \cup {Change("exitDelay", 0, 0, <<TRUE>>)}
KeypadChanges ==
  {Change(k, 0, 0, <<v>>) : k \in {"writeReady", "exitDelay"}, v \in BOOLEAN}
    \cup {Change("armed", 0, 0, m) :
            m \in {<<FALSE, FALSE, FALSE, FALSE>>, <<TRUE, TRUE, FALSE, FALSE>>}}
    \cup {Change("accessCodePrompt", 0, 0, <<TRUE>>),
          Change("bufferOverflow", 0, 0, <<TRUE>>)}

SetsFlag(c) == c.kind \in {"armed", "alarm", "fire", "zone"}

\* A status the library decodes during handlePanel(): it stores the status,
\* raises the status's change flag and statusChanged.
PanelChange(c) ==
  /\ pc = "handlePanel" \/ (pc = "callback" /\ ~writeReady)
  /\ busChanges < MaxBusChanges
  /\ busChanges' = busChanges + 1
  /\ statusChanged' = (IF c.kind \in {"writeReady", "bufferOverflow"}
                       THEN statusChanged ELSE TRUE)
  /\ bufferOverflow' = (IF c.kind = "bufferOverflow" THEN TRUE ELSE bufferOverflow)
  /\ accessCodePrompt' = (IF c.kind = "accessCodePrompt" THEN TRUE
                          ELSE accessCodePrompt)
  /\ writeReady' = (IF c.kind = "writeReady" THEN c.value[1] ELSE writeReady)
  /\ exitDelay' = (IF c.kind = "exitDelay" THEN c.value[1] ELSE exitDelay)
  /\ partitionArmed' = (IF c.kind = "armed" /\ c.index = 0 THEN c.value[1]
                        ELSE partitionArmed)
  /\ IF c.kind = "armed"
     THEN /\ partitionsArmed' = [partitionsArmed EXCEPT ![c.index] = c.value[1]]
          /\ partitionsArmedAway' = [partitionsArmedAway EXCEPT ![c.index] = c.value[2]]
          /\ partitionsArmedStay' = [partitionsArmedStay EXCEPT ![c.index] = c.value[3]]
          /\ partitionsNoEntryDelay' =
               [partitionsNoEntryDelay EXCEPT ![c.index] = c.value[4]]
          /\ partitionsArmedChanged' = [partitionsArmedChanged EXCEPT ![c.index] = TRUE]
     ELSE UNCHANGED <<partitionsArmed, partitionsArmedAway, partitionsArmedStay,
                      partitionsNoEntryDelay, partitionsArmedChanged>>
  /\ IF c.kind = "alarm"
     THEN /\ partitionsAlarm' = [partitionsAlarm EXCEPT ![c.index] = c.value[1]]
          /\ partitionsAlarmChanged' = [partitionsAlarmChanged EXCEPT ![c.index] = TRUE]
     ELSE UNCHANGED <<partitionsAlarm, partitionsAlarmChanged>>
  /\ IF c.kind = "fire"
     THEN /\ partitionsFire' = [partitionsFire EXCEPT ![c.index] = c.value[1]]
          /\ partitionsFireChanged' = [partitionsFireChanged EXCEPT ![c.index] = TRUE]
     ELSE UNCHANGED <<partitionsFire, partitionsFireChanged>>
  /\ IF c.kind = "zone"
     THEN /\ openZones' = [openZones EXCEPT
               ![c.index] = bitWrite(@, c.bit, IF c.value[1] THEN 1 ELSE 0)]
          /\ openZonesChanged' = [openZonesChanged EXCEPT
               ![c.index] = bitWrite(@, c.bit, 1)]
          /\ openZonesStatusChanged' = TRUE
     ELSE UNCHANGED zoneVars
  /\ runLog' = (IF SetsFlag(c) THEN <<>> ELSE runLog)
  /\ UNCHANGED <<mqttVars, now, pc, pendingKey, published, writes, codeSent,
                 callback, poll, lastAttempt, ticks,
                 handlePanelResult>>

(***************************************************************************)
(* loop(), line 170: mqttHandle().  With the broker connected mqtt.loop()  *)
(* runs and may deliver one inbound message to mqttCallback, which either  *)
(* returns at once or enters its wait for dsc.writeReady.                  *)
(***************************************************************************)
MqttHandle(inbound, brokerAccepts) ==
  /\ pc = "mqttHandle"
  /\ published' = <<>> /\ writes' = <<>> /\ codeSent' = FALSE
  /\ handlePanelResult' = FALSE
  /\ UNCHANGED <<dscVars, partitionVars, zoneVars, now, runLog, busChanges, ticks>>
  /\ IF ~connected
     THEN /\ inbound = NoMessage
          /\ callback' = NoCallback
          /\ pendingKey' = NoKey
          /\ pc' = "handlePanel"
          /\ IF ReconnectDue(now)
             THEN \* mqttPreviousTime = mqttCurrentTime; if (mqttConnect()) ...
                  /\ connected' = brokerAccepts
                  /\ subscribed' = SubscribedAfterConnect(brokerAccepts)
                  /\ mqttPreviousTime' = PreviousTimeAfterAttempt(now, brokerAccepts)
                  /\ lastAttempt' = [time |-> now, ok |-> brokerAccepts,
                                     reconnect |-> TRUE, wrapped |-> FALSE]
                  /\ poll' = [disconnected |-> TRUE,
                              elapsed |-> Elapsed(now, lastAttempt.time),
                              attempts |-> 1, previous |-> lastAttempt]
             ELSE /\ UNCHANGED <<mqttVars, lastAttempt>>
                  /\ poll' = [disconnected |-> TRUE,
                              elapsed |-> Elapsed(now, lastAttempt.time),
                              attempts |-> 0, previous |-> lastAttempt]
     ELSE /\ inbound # NoMessage => subscribed
          /\ UNCHANGED <<mqttVars, lastAttempt>>
          /\ poll' = [disconnected |-> FALSE,
                      elapsed |-> Elapsed(now, lastAttempt.time),
                      attempts |-> 0, previous |-> lastAttempt]
          /\ IF inbound = NoMessage
             THEN /\ callback' = NoCallback
                  /\ pendingKey' = NoKey
                  /\ pc' = "handlePanel"
             ELSE /\ callback' = [payload |-> inbound, armed |-> partitionArmed,
                                  exitDelay |-> exitDelay,
                                  returned |-> GateKey(inbound) = NoKey]
                  /\ pendingKey' = GateKey(inbound)
                  /\ pc' = (IF GateKey(inbound) = NoKey THEN "handlePanel"
                            ELSE "callback")

CallbackWriteNoWait ==
  /\ pc = "callback"
  /\ writes' = Append(writes, WriteRecord(pendingKey))
  /\ writeReady' = FALSE
  /\ callback' = [callback EXCEPT !.returned = TRUE]
  /\ pendingKey' = NoKey
  /\ pc' = "handlePanel"
  /\ UNCHANGED <<statusChanged, bufferOverflow, accessCodePrompt, partitionArmed,
                 exitDelay, partitionVars, zoneVars, mqttVars, now, published,
                 codeSent, poll, lastAttempt, runLog, busChanges, ticks,
                 handlePanelResult>>

CallbackWriteClearsStatus ==
  /\ pc = "callback"
  /\ writeReady
  /\ writes' = Append(writes, WriteRecord(pendingKey))
  /\ writeReady' = FALSE
  /\ statusChanged' = FALSE
  /\ callback' = [callback EXCEPT !.returned = TRUE]
  /\ pendingKey' = NoKey
  /\ pc' = "handlePanel"
  /\ UNCHANGED <<bufferOverflow, accessCodePrompt, partitionArmed,
                 exitDelay, partitionVars, zoneVars, mqttVars, now, published,
                 codeSent, poll, lastAttempt, runLog, busChanges, ticks,
                 handlePanelResult>>

\* mqttCallback past its wait: while (!dsc.writeReady) dsc.handlePanel(); then
\* dsc.write(key).  The library takes the key and is busy until it is sent.
CallbackWrite ==
  /\ pc = "callback"
  /\ writeReady
  /\ writes' = Append(writes, WriteRecord(pendingKey))
  /\ writeReady' = FALSE
  /\ callback' = [callback EXCEPT !.returned = TRUE]
  /\ pendingKey' = NoKey
  /\ pc' = "handlePanel"
  /\ UNCHANGED <<statusChanged, bufferOverflow, accessCodePrompt, partitionArmed,
                 exitDelay, partitionVars, zoneVars, mqttVars, now, published,
                 codeSent, poll, lastAttempt, runLog, busChanges, ticks,
                 handlePanelResult>>

PanelReturnAbandonsWait(result) ==
  /\ pc \in {"handlePanel", "callback"}
  /\ handlePanelResult' = result
  /\ pc' = (IF result /\ statusChanged THEN "translate" ELSE "mqttHandle")
  /\ UNCHANGED <<dscVars, partitionVars, zoneVars, mqttVars, now, pendingKey,
                 obsVars, busChanges, ticks>>

\* loop(), line 172: dsc.handlePanel() returns; the translator runs only when
\* it returned true and dsc.statusChanged is set.
PanelReturn(result) ==
  /\ pc = "handlePanel"
  /\ handlePanelResult' = result
  /\ pc' = (IF result /\ statusChanged THEN "translate" ELSE "mqttHandle")
  /\ UNCHANGED <<dscVars, partitionVars, zoneVars, mqttVars, now, pendingKey,
                 obsVars, busChanges, ticks>>

\* loop(), lines 173-267.
Translate ==
  /\ pc = "translate"
  /\ statusChanged' = FALSE
  /\ bufferOverflow' = FALSE
  /\ accessCodePrompt' = (IF accessCodePrompt /\ writeReady THEN FALSE
                          ELSE accessCodePrompt)
  /\ codeSent' = (accessCodePrompt /\ writeReady)
  /\ writeReady' = (IF accessCodePrompt /\ writeReady THEN FALSE ELSE writeReady)
  /\ published' = StatusPublishes
  /\ partitionsArmedChanged' = [i \in PartitionIndexes |-> ArmedChangedAfter(i)]
  /\ partitionsAlarmChanged' = [i \in PartitionIndexes |-> AlarmChangedAfter(i)]
  /\ partitionsFireChanged' = [i \in PartitionIndexes |-> FireChangedAfter(i)]
  /\ openZonesStatusChanged' = FALSE
  /\ openZonesChanged' = [g \in ZoneGroupIndexes |-> ZonesChangedAfter(g)]
  \* mqtt.subscribe(mqttSubscribeTopic)
  /\ subscribed' = connected
  /\ runLog' = (IF Len(runLog) = 2
                THEN <<runLog[2], [count |-> Len(StatusPublishes), ok |-> connected]>>
                ELSE Append(runLog, [count |-> Len(StatusPublishes), ok |-> connected]))
  /\ pc' = "mqttHandle"
  /\ UNCHANGED <<partitionArmed, exitDelay, partitionsArmed, partitionsArmedAway,
                 partitionsArmedStay, partitionsNoEntryDelay, partitionsAlarm,
                 partitionsFire, openZones, connected, mqttPreviousTime, now,
                 pendingKey, writes, callback, poll, lastAttempt, busChanges, ticks,
                 handlePanelResult>>

(***************************************************************************)
(* Specifications.  Spec is the whole sketch.  The others are the sketch   *)
(* in an environment that exercises one component: SpecTranslator has a    *)
(* bus that changes status and a broker that sends nothing, at a clock     *)
(* that stands still; SpecGate has a broker that sends commands and a bus  *)
(* that changes the keypad state; SpecSupervisor has a clock that runs and *)
(* a broker that comes and goes over an idle bus.                          *)
(***************************************************************************)
Next ==
  \/ \E d \in Delays : Tick(d)
  \/ BrokerDrop
  \/ \E c \in StatusChanges \cup KeypadChanges : PanelChange(c)
  \/ \E m \in Payloads \cup {NoMessage}, a \in BOOLEAN : MqttHandle(m, a)
  \/ CallbackWrite
  \/ \E r \in BOOLEAN : PanelReturn(r)
  \/ Translate

Spec == Init /\ [][Next]_vars

NextTranslator ==
  \/ BrokerDrop
  \/ \E c \in StatusChanges : PanelChange(c)
  \/ \E a \in BOOLEAN : MqttHandle(NoMessage, a)
  \/ \E r \in BOOLEAN : PanelReturn(r)
  \/ Translate

SpecTranslator == InitAt(QuietStart) /\ [][NextTranslator]_vars

NextGate ==
  \/ \E c \in KeypadChanges : PanelChange(c)
  \/ \E m \in Payloads \cup {NoMessage} : MqttHandle(m, FALSE)
  \/ CallbackWrite
  \/ \E r \in BOOLEAN : PanelReturn(r)
  \/ Translate

SpecGate == InitAt(QuietStart) /\ [][NextGate]_vars

\* The gate on a processor that keeps running: once the wait loop's test
\* dsc.writeReady holds, the loop ends and the write is made.
SpecGateFair == SpecGate /\ WF_vars(CallbackWrite)

NextSupervisor ==
  \/ \E d \in Delays : Tick(d)
  \/ BrokerDrop
  \/ \E a \in BOOLEAN : MqttHandle(NoMessage, a)
  \/ PanelReturn(FALSE)

SpecSupervisor == Init /\ [][NextSupervisor]_vars

\* The supervisor with time that keeps advancing, a poll cycle that keeps
\* running and a broker that, asked again and again, accepts: a reconnect
\* that is possible again and again succeeds.
Reconnect == MqttHandle(NoMessage, TRUE) /\ ~connected /\ connected'

NextSupervisorFair ==
  \/ \E d \in Periods : Advance(d)
  \/ BrokerDrop
  \/ \E a \in BOOLEAN : MqttHandle(NoMessage, a)
  \/ PanelReturn(FALSE)

SpecSupervisorFair ==
  /\ Init /\ [][NextSupervisorFair]_vars
  /\ SF_vars(\E d \in Periods : Advance(d))
  /\ WF_vars(\E a \in BOOLEAN : MqttHandle(NoMessage, a))
  /\ WF_vars(PanelReturn(FALSE))
  /\ SF_vars(Reconnect)

(***************************************************************************)
(* Properties of the Status Translator.                                    *)
(***************************************************************************)
\* A step that is one run of the translator.
TranslateStep == pc = "translate" /\ pc' = "mqttHandle"
\* The state one run of the translator has just left.
Translated == pc = "mqttHandle" /\ Len(runLog) > 0 /\ ~statusChanged

\* The publish calls in log on one topic, as <<topic, payload, retained>>.
OnTopic(log, topic) ==
  LET hits == SelectSeq(log, LAMBDA m : m.topic = topic)
  IN  [i \in 1..Len(hits) |-> <<hits[i].topic, hits[i].payload, hits[i].retained>>]

WithPayload(calls, payloads) == SelectSeq(calls, LAMBDA c : c[2] \in payloads)

DecimalText(n) ==
  LET d == <<"0", "1", "2", "3", "4", "5", "6", "7", "8", "9">>
  IN  IF n < 10 THEN d[n + 1] ELSE d[(n \div 10) + 1] \o d[(n % 10) + 1]

PartitionTopic(p) == "dsc/Get/Partition" \o DecimalText(p + 1)
FireTopic(p) == "dsc/Get/Fire" \o DecimalText(p + 1)
ZoneTopic(z) == "dsc/Get/Zone" \o DecimalText(z)
ArmedStates == {"NA", "AA", "SA", "D"}

\* The priority order of the armed state: the first entry whose condition
\* holds gives the payload.
ArmedOrder(p) ==
  << <<partitionsArmed[p] /\ partitionsArmedAway[p] /\ partitionsNoEntryDelay[p], "NA">>,
     <<partitionsArmed[p] /\ partitionsArmedAway[p], "AA">>,
     <<partitionsArmed[p] /\ partitionsArmedStay[p] /\ partitionsNoEntryDelay[p], "NA">>,
     <<partitionsArmed[p] /\ partitionsArmedStay[p], "SA">>,
     <<~partitionsArmed[p], "D">> >>

FirstMatch(p) ==
  LET hits == {i \in 1..5 : ArmedOrder(p)[i][1]}
  IN  IF hits = {} THEN <<>>
      ELSE << <<PartitionTopic(p),
                ArmedOrder(p)[CHOOSE i \in hits : \A j \in hits : i <= j][2],
                TRUE>> >>

\* C1: a run of the translator with armedChanged[p] set publishes on
\* Partition{p} as armed state exactly the first match of the priority order
\* NA (away, no entry delay), AA (away), NA (stay, no entry delay), SA (stay),
\* D (not armed), retained, and nothing where no entry matches; armedChanged[p]
\* is false afterwards.
C1_ArmedStateFirstMatch ==
  [][TranslateStep =>
       \A p \in PartitionIndexes :
         partitionsArmedChanged[p] =>
           /\ WithPayload(OnTopic(published', PartitionTopic(p)), ArmedStates)
                = FirstMatch(p)
           /\ ~partitionsArmedChanged'[p]]_vars

C1_Witness ==
  /\ Translated
  /\ \E p \in PartitionIndexes :
       /\ partitionsArmed[p] /\ partitionsArmedAway[p] /\ partitionsArmedStay[p]
       /\ ~partitionsNoEntryDelay[p] /\ ~partitionsArmedChanged[p]
       /\ OnTopic(published, PartitionTopic(p)) = << <<PartitionTopic(p), "AA", TRUE>> >>

\* The armed-state messages a run published on Partition{p}.
ArmedStateMessages(log, p) == WithPayload(OnTopic(log, PartitionTopic(p)), ArmedStates)

\* C18 as claimed: a run of the translator that clears armedChanged[p]
\* publishes exactly one armed-state message on Partition{p}, whatever the
\* values of armed, armedAway, armedStay and noEntryDelay.
C18_OneMessagePerClearedFlag ==
  [][TranslateStep =>
       \A p \in PartitionIndexes :
         (partitionsArmedChanged[p] /\ ~partitionsArmedChanged'[p]) =>
           Len(ArmedStateMessages(published', p)) = 1]_vars

\* C18 as amended: a run of the translator that clears armedChanged[p]
\* publishes exactly one armed-state message on Partition{p} when the
\* partition is disarmed or armed with armedAway or armedStay set, and no
\* armed-state message when it is armed with neither set.
C18_OneMessageUnlessArmedWithoutMode ==
  [][TranslateStep =>
       \A p \in PartitionIndexes :
         (partitionsArmedChanged[p] /\ ~partitionsArmedChanged'[p]) =>
           Len(ArmedStateMessages(published', p))
             = (IF partitionsArmed[p] /\ ~partitionsArmedAway[p]
                     /\ ~partitionsArmedStay[p]
                THEN 0 ELSE 1)]_vars

\* The one run since the one bus change, which armed partition 8 with neither
\* mode, has cleared the flag and published nothing.
C18_Witness ==
  /\ pc = "mqttHandle" /\ busChanges = 1
  /\ Len(runLog) = 1 /\ runLog[1].count = 0
  /\ partitionsArmed[7] /\ ~partitionsArmedAway[7] /\ ~partitionsArmedStay[7]
  /\ ~partitionsArmedChanged[7] /\ published = <<>>

\* C3: for every zone z in 1..64 a run of the translator publishes on Zone{z}
\* exactly one retained message, "1" for an open zone and "0" for a closed
\* one, when the zone's change bit is set, and clears the bit; it publishes
\* nothing on Zone{z} when the bit is clear.
C3_ZoneMessages ==
  [][TranslateStep =>
       \A z \in 1..64 :
         LET g == (z - 1) \div 8
             b == (z - 1) % 8
         IN  IF bitRead(openZonesChanged[g], b) = 1
             THEN /\ OnTopic(published', ZoneTopic(z))
                       = << <<ZoneTopic(z),
                              IF bitRead(openZones[g], b) = 1 THEN "1" ELSE "0",
                              TRUE>> >>
                  /\ bitRead(openZonesChanged'[g], b) = 0
             ELSE OnTopic(published', ZoneTopic(z)) = <<>>]_vars

C3_Witness ==
  /\ Translated
  /\ OnTopic(published, "dsc/Get/Zone9") = << <<"dsc/Get/Zone9", "1", TRUE>> >>
  /\ bitRead(openZones[1], 0) = 1
  /\ bitRead(openZonesChanged[1], 0) = 0

\* C4: a run of the translator publishes "T" on Partition{p} exactly when
\* alarmChanged[p] is set and alarmTripped[p] is true; with alarmChanged[p]
\* set and alarmTripped[p] false it publishes nothing for the alarm, and it
\* clears alarmChanged[p] in both cases.
C4_AlarmTrippedOnly ==
  [][TranslateStep =>
       \A p \in PartitionIndexes :
         /\ WithPayload(OnTopic(published', PartitionTopic(p)), {"T"})
              = (IF partitionsAlarmChanged[p] /\ partitionsAlarm[p]
                 THEN << <<PartitionTopic(p), "T", TRUE>> >> ELSE <<>>)
         /\ (partitionsAlarmChanged[p] /\ ~partitionsAlarm[p]
               /\ ~partitionsArmedChanged[p])
              => OnTopic(published', PartitionTopic(p)) = <<>>
         /\ ~partitionsAlarmChanged'[p]]_vars

C4_Witness ==
  /\ Translated
  /\ \E p \in PartitionIndexes :
       /\ partitionsAlarm[p] /\ ~partitionsAlarmChanged[p]
       /\ OnTopic(published, PartitionTopic(p)) = << <<PartitionTopic(p), "T", TRUE>> >>

C6_FireMessage ==
  [][TranslateStep =>
       \A p \in PartitionIndexes :
         /\ OnTopic(published', FireTopic(p))
              = (IF partitionsFireChanged[p]
                 THEN << <<FireTopic(p),
                           IF partitionsFire[p] THEN "1" ELSE "0", FALSE>> >>
                 ELSE <<>>)
         /\ ~partitionsFireChanged'[p]]_vars

C6_Witness ==
  /\ Translated
  /\ ~partitionsFire[7] /\ ~partitionsFireChanged[7]
  /\ OnTopic(published, "dsc/Get/Fire8") = << <<"dsc/Get/Fire8", "0", FALSE>> >>

\* C7: when the translator runs twice and the bus collaborator sets no change
\* flag between the two runs, the second run publishes no message.  (runLog
\* holds the message counts of the latest runs with no change flag set since
\* the first of them.)
C7_Idempotent == Len(runLog) = 2 => runLog[2].count = 0

C7_Witness == Len(runLog) = 2 /\ runLog[1].count > 0 /\ runLog[2].count = 0

\* C8: a run of the translator whose publish calls fail (the broker is not
\* connected) leaves every change flag cleared, as a run whose calls succeed
\* does, and the next run publishes nothing unless the bus collaborator has
\* set a change flag again.
C8_FailedPublishNotRetried ==
  [][TranslateStep =>
       /\ ~connected =>
            /\ \A i \in 1..Len(published') : ~published'[i].ok
            /\ \A p \in PartitionIndexes :
                 /\ ~partitionsArmedChanged'[p]
                 /\ ~partitionsAlarmChanged'[p]
                 /\ ~partitionsFireChanged'[p]
            /\ \A g \in ZoneGroupIndexes : openZonesChanged'[g] = 0
       /\ (Len(runLog) > 0 /\ ~runLog[Len(runLog)].ok) => published' = <<>>]_vars

C8_Witness ==
  /\ Len(runLog) = 2
  /\ ~runLog[1].ok /\ runLog[1].count > 0
  /\ runLog[2].count = 0

\* The place of a publish call in the order of the translator: by partition,
\* there armed state, then alarm, then fire; after all partitions the zones by
\* zone number.
PublishRank(m) ==
  IF \E p \in PartitionIndexes : m.topic = PartitionTopic(p)
  THEN 3 * (CHOOSE p \in PartitionIndexes : m.topic = PartitionTopic(p))
         + (IF m.payload = "T" THEN 1 ELSE 0)
  ELSE IF \E p \in PartitionIndexes : m.topic = FireTopic(p)
  THEN 3 * (CHOOSE p \in PartitionIndexes : m.topic = FireTopic(p)) + 2
  ELSE 3 * dscPartitions
         + (CHOOSE z \in 1..(zoneGroups * zoneBits) : m.topic = ZoneTopic(z))

\* C16: the publish calls of one run of the translator come in this order:
\* partitions in ascending order, for one partition the armed state before
\* the alarm "T" before the fire state, then the zones in ascending zone
\* number; and the run leaves no change flag set.
C16_PublishOrder ==
  [][TranslateStep =>
       /\ \A i, j \in 1..Len(published') :
            i < j => PublishRank(published'[i]) < PublishRank(published'[j])
       /\ ~statusChanged' /\ ~openZonesStatusChanged'
       /\ \A p \in PartitionIndexes :
            /\ ~partitionsArmedChanged'[p]
            /\ ~partitionsAlarmChanged'[p]
            /\ ~partitionsFireChanged'[p]
       /\ \A g \in ZoneGroupIndexes : openZonesChanged'[g] = 0]_vars

\* A run that published the alarm of partition 8 and then the state of zone 2.
C16_Witness ==
  /\ Translated /\ Len(published) = 2
  /\ published[1].topic = "dsc/Get/Partition8" /\ published[1].payload = "T"
  /\ published[2].topic = "dsc/Get/Zone2"

\* The run has built this topic.
Built(topic) == \E i \in 1..Len(published) : published[i].topic = topic

\* C20: for every partition 1..8 and every zone 1..64 whose topic the
\* translator builds, the topic buffer holds the base topic, the decimal
\* digits of the number and the terminator, so that building the topic writes
\* nothing past the buffer.
C20_TopicFitsBuffer ==
  /\ \A partitionIndex \in PartitionIndexes :
       /\ Built(PublishTopic(mqttPartitionTopic, partitionIndex + 1)) =>
            BytesWritten(mqttPartitionTopic, partitionIndex + 1) <= PartitionTopicBuffer
       /\ Built(PublishTopic(mqttFireTopic, partitionIndex + 1)) =>
            BytesWritten(mqttFireTopic, partitionIndex + 1) <= FireTopicBuffer
  /\ \A zoneGroup \in ZoneGroupIndexes, zoneBit \in 0..(zoneBits - 1) :
       Built(PublishTopic(mqttZoneTopic, zoneBit + 1 + (zoneGroup * 8))) =>
         BytesWritten(mqttZoneTopic, zoneBit + 1 + (zoneGroup * 8)) <= ZoneTopicBuffer

(***************************************************************************)
(* Properties of the Command Gate.                                         *)
(***************************************************************************)
KeypadKey(payload) ==
  CASE payload = "S" -> "s" [] payload = "A" -> "w" [] payload = "N" -> "n"
    [] payload = "D" -> accessCode

\* C2: a handler run for a payload S, A, N or D that has returned has made
\* exactly one write, of 's', 'w', 'n' for S, A, N when partition 1 was
\* neither armed nor in exit delay as the handler started, of the access code
\* for D when it was armed or in exit delay, and no write otherwise.
C2_GateWrites ==
  (callback.returned /\ callback.payload \in {"S", "A", "N", "D"}) =>
    LET idle == ~callback.armed /\ ~callback.exitDelay
        accepted == IF callback.payload = "D" THEN ~idle ELSE idle
    IN  IF accepted
        THEN /\ Len(writes) = 1
             /\ writes[1].key = KeypadKey(callback.payload)
        ELSE writes = <<>>

C2_Witness ==
  /\ callback.returned /\ callback.payload = "D" /\ callback.armed
  /\ Len(writes) = 1 /\ writes[1].key = accessCode

\* A step in which mqtt.loop() delivers a payload to mqttCallback.
Delivery == pc = "mqttHandle" /\ callback'.payload # NoMessage

\* C12: a payload whose first byte is none of S, A, N, D makes the handler
\* return at once: it writes nothing to the panel, steps the bus not at all
\* and leaves the panel state and the connection state as they were, whatever
\* the panel state.
C12_UnknownPayloadIgnored ==
  [][(Delivery /\ callback'.payload \notin {"S", "A", "N", "D"}) =>
       /\ callback'.returned /\ pc' = "handlePanel"
       /\ writes' = <<>> /\ pendingKey' = NoKey
       /\ busChanges' = busChanges
       /\ UNCHANGED <<dscVars, partitionVars, zoneVars, mqttVars>>]_vars

\* An unknown payload has been delivered with partition 1 armed.
C12_Witness ==
  /\ callback.payload = "X" /\ callback.armed /\ callback.returned
  /\ pc = "handlePanel" /\ writes = <<>>

\* The handler's test of the payload and of the state it started in.
Accepted(cb) ==
  \/ cb.payload \in {"S", "A", "N"} /\ ~cb.armed /\ ~cb.exitDelay
  \/ cb.payload = "D" /\ (cb.armed \/ cb.exitDelay)

\* C13: every write of the handler is made with dsc.writeReady true, the
\* handler never writes twice, and once it has returned from an accepted
\* command it has written exactly once, however many bus steps its wait took.
C13_OneWriteWhenReady ==
  /\ \A i \in 1..Len(writes) : writes[i].ready
  /\ Len(writes) <= 1
  /\ (Accepted(callback) /\ callback.returned) => Len(writes) = 1
  /\ (Accepted(callback) /\ ~callback.returned) => writes = <<>>

\* A write made after a wait of two bus steps: the first changed the armed
\* state, the second made the panel ready.
C13_Witness ==
  /\ Accepted(callback) /\ callback.returned
  /\ Len(writes) = 1 /\ writes[1].ready
  /\ writes[1].armed # callback.armed

\* C14: once the bus steps of the wait have made dsc.writeReady true the
\* handler makes its write and returns; it returns in no other way, so it
\* waits for as long as writeReady stays false; and while it waits nothing is
\* published and mqttHandle runs neither mqtt.loop() nor a reconnect.
C14_WaitTerminates ==
  /\ (pc = "callback" /\ writeReady) ~> (callback.returned /\ Len(writes) = 1)
  /\ [][pc = "callback" =>
         /\ \/ pc' = "callback" /\ ~callback'.returned /\ writes' = writes
            \/ writeReady /\ callback'.returned /\ Len(writes') = 1
         /\ published' = published
         /\ UNCHANGED <<mqttVars, poll, lastAttempt>>]_vars

\* The handler has returned from a wait in which the exit delay changed.
C14_Witness ==
  /\ Accepted(callback) /\ callback.returned /\ pc = "handlePanel"
  /\ Len(writes) = 1 /\ writes[1].exitDelay # callback.exitDelay

\* C17: an arm key ('s', 'w' or 'n') is written only in a state where
\* partition 1 is disarmed and not in exit delay, and the access code for a
\* disarm only in a state where partition 1 is armed or in exit delay,
\* whatever the bus steps of the wait changed.
C17_PreconditionHoldsAtWrite ==
  (callback.returned /\ Len(writes) = 1) =>
    IF callback.payload = "D"
    THEN writes[1].armed \/ writes[1].exitDelay
    ELSE ~writes[1].armed /\ ~writes[1].exitDelay

\* C19: a status change that a bus step inside the wait of the handler
\* flagged is not lost.  statusChanged and armedChanged[p] are reset by a run
\* of the translator and by nothing else, a set armedChanged[p] comes with a
\* set statusChanged, the run that resets armedChanged[p] publishes the armed
\* state of partition p, and the first dsc.handlePanel() of loop() to return
\* true with statusChanged set starts that run.
C19_WaitChangesNotLost ==
  [][/\ (statusChanged /\ ~statusChanged') => TranslateStep
     /\ \A p \in PartitionIndexes :
          /\ (partitionsArmedChanged[p] /\ ~partitionsArmedChanged'[p]) =>
                /\ TranslateStep
                /\ ArmedStateMessages(published', p) = FirstMatch(p)
          /\ partitionsArmedChanged'[p] => statusChanged'
     /\ (pc = "handlePanel" /\ pc' # "handlePanel" /\ statusChanged) =>
          pc' = (IF handlePanelResult' THEN "translate" ELSE "mqttHandle")]_vars

\* Partition 1 was armed by a bus step inside the wait of the handler, and
\* the run of the translator in the same poll cycle has published it.
C19_Witness ==
  /\ Translated /\ handlePanelResult
  /\ callback.returned /\ Len(writes) = 1 /\ writes[1].armed /\ ~callback.armed
  /\ ArmedStateMessages(published, 0) = << <<PartitionTopic(0), "AA", TRUE>> >>

(***************************************************************************)
(* Properties of the Connection Supervisor.  poll describes the latest     *)
(* call of mqttHandle: whether it found the broker disconnected, the time  *)
(* elapsed since the latest connection attempt before it (previous, with   *)
(* the attempt's outcome, whether mqttHandle or setup made it and whether  *)
(* the clock wrapped since) and the attempts it made.                      *)
(***************************************************************************)
\* C9 as claimed: a poll with the broker disconnected and at least 5000 ms
\* elapsed since the last connection attempt makes exactly one attempt.
C9_AttemptAtFiveSeconds ==
  (poll.disconnected /\ poll.elapsed >= 5000) => poll.attempts = 1

\* C9 as amended: a poll with the broker disconnected and more than 5000 ms
\* elapsed since the last connection attempt (5000 ms itself is not enough),
\* the clock not having wrapped since that attempt, makes exactly one attempt.
C9_AttemptAfterFiveSeconds ==
  (poll.disconnected /\ poll.elapsed > 5000 /\ ~poll.previous.wrapped)
    => poll.attempts = 1

C9_Witness ==
  /\ poll.disconnected /\ poll.elapsed = 5001 /\ ~poll.previous.wrapped
  /\ ~poll.previous.ok /\ poll.previous.reconnect
  /\ poll.attempts = 1

\* C10 as claimed: after any failed connection attempt, that of setup
\* included, the next attempt comes no sooner than 5000 ms after it.
C10_BackoffAfterAnyFailure ==
  (poll.attempts = 1 /\ ~poll.previous.ok) => poll.elapsed >= 5000

\* C10 as amended: after a failed reconnect attempt of the supervisor the
\* next attempt comes no sooner than 5000 ms after it; after a failed attempt
\* of setup the next attempt is made by the first poll at which millis()
\* exceeds 5000, however short the time since the failed attempt.
C10_BackoffAfterFailedReconnect ==
  (poll.attempts = 1 /\ ~poll.previous.ok) =>
    IF poll.previous.reconnect THEN poll.elapsed >= 5000
    ELSE Elapsed(poll.previous.time + poll.elapsed, 0) > 5000

C10_Witness ==
  /\ poll.attempts = 1 /\ ~poll.previous.ok /\ poll.previous.reconnect
  /\ poll.elapsed > 5000

\* C11 as claimed: no connection attempt is made when fewer than 5000 ms have
\* elapsed since the latest connection attempt, whether that attempt
\* succeeded or failed.
C11_NoAttemptWithinFiveSeconds == poll.attempts = 1 => poll.elapsed >= 5000

\* The latest attempt left its own time in mqttPreviousTime: a failed
\* reconnect of mqttHandle (line 309) or a successful connect of setup (line
\* 158).  A successful reconnect (line 312) and a failed connect of setup (line
\* 159) leave 0.
LeftItsTime(attempt) == attempt.reconnect # attempt.ok

\* C11 as amended: no connection attempt is made when fewer than 5000 ms have
\* elapsed since the latest attempt if that attempt was a failed reconnect or
\* the successful connect of setup; after a successful reconnect or a failed
\* connect of setup an attempt is made only when millis() exceeds 5000,
\* whatever the time since that attempt.
C11_NoAttemptWithinFiveSecondsOfTimedAttempt ==
  poll.attempts = 1 =>
    IF LeftItsTime(poll.previous) THEN poll.elapsed >= 5000
    ELSE Elapsed(poll.previous.time + poll.elapsed, 0) > 5000

\* A connection made by setup is lost and retried after more than 5000 ms.
C11_Witness ==
  /\ poll.attempts = 1 /\ poll.previous.ok /\ ~poll.previous.reconnect
  /\ poll.elapsed > 5000

\* C15: with time advancing, the poll cycle running and the broker accepting,
\* a disconnected supervisor becomes connected, after however many failed
\* attempts, and every connect that succeeds is a state subscribed to the
\* command topic, so that no message is handled before the subscription.
C15_ReconnectsAndSubscribes ==
  /\ ~connected ~> connected
  /\ [][(~connected /\ connected') => subscribed']_vars
  /\ [](connected => subscribed)

\* Connected and subscribed by a reconnect that followed a failed reconnect.
C15_Witness ==
  /\ connected /\ subscribed
  /\ lastAttempt.reconnect /\ lastAttempt.ok
  /\ poll.attempts = 1 /\ poll.previous.reconnect /\ ~poll.previous.ok

====
